---- MODULE Spec2Model ----
(***************************************************************************)
(* Model of code2pdf.py: project classification, file collection, the      *)
(* per-line highlighter and the document assembly loop of create_pdf.      *)
(*                                                                         *)
(* Strings are sequences of one-character strings so that sorting,         *)
(* splitext, glob matching, escaping and formatting are computed character *)
(* by character, as Python computes them.                                  *)
(***************************************************************************)
EXTENDS Integers, Sequences, FiniteSets, TLC

VARIABLES
    root_exists,    \* os.path.exists(base_path)
    tree,           \* directory entries below base_path
    pc,             \* position in create_pdf / which function was applied
    project_type,   \* local project_type
    files,          \* local files (the collector's result)
    dir_files,      \* local dir_files (TOC groups)
    elements,       \* local elements (the flowable stream)
    i,              \* loop index of "for i, file_path in enumerate(files, 1)"
    reads,          \* what open()/readlines() answered for files 1..i-1
    output_written, \* doc.build wrote output_filename
    status,         \* "running", "returned" or "raised"
    line_content,   \* argument of syntax_highlight_line
    line_num,       \* argument of syntax_highlight_line
    tokens,         \* local tokens of syntax_highlight_line
    markup,         \* value returned by syntax_highlight_line
    token_type,     \* argument of get_color
    color           \* value returned by get_color

vars == <<root_exists, tree, pc, project_type, files, dir_files, elements, i,
          reads, output_written, status, line_content, line_num, tokens,
          markup, token_type, color>>

-----------------------------------------------------------------------------
(* Bounds *)

MaxEntries == 5
MaxDocEntries == 5
MaxLen == 4
MaxTokens == 2
MaxDepth == 3

-----------------------------------------------------------------------------
(* Character strings *)

\* chr(96); a lone grave accent cannot be written in a string literal
Backtick == "U+0060"

\* printable ASCII in code order, 32 .. 126
AsciiTable ==
    <<" ", "!", "\"", "#", "$", "%", "&", "'", "(", ")", "*", "+", ",", "-",
      ".", "/", "0", "1", "2", "3", "4", "5", "6", "7", "8", "9", ":", ";",
      "<", "=", ">", "?", "@", "A", "B", "C", "D", "E", "F", "G", "H", "I",
      "J", "K", "L", "M", "N", "O", "P", "Q", "R", "S", "T", "U", "V", "W",
      "X", "Y", "Z", "[", "\\", "]", "^", "_", Backtick, "a", "b", "c", "d", "e",
      "f", "g", "h", "i", "j", "k", "l", "m", "n", "o", "p", "q", "r", "s",
      "t", "u", "v", "w", "x", "y", "z", "{", "|", "}", "~">>

NL == "\n"

\* ord(c); the newline is code 10
Ord ==
    [c \in {AsciiTable[k] : k \in 1..Len(AsciiTable)} \cup {NL} |->
        IF c = NL THEN 10
        ELSE 31 + (CHOOSE k \in 1..Len(AsciiTable) : AsciiTable[k] = c)]

Digits == <<"0", "1", "2", "3", "4", "5", "6", "7", "8", "9">>

RECURSIVE IntToStr(_)
\* str(n), n >= 0
IntToStr(n) ==
    IF n < 10 THEN <<Digits[n + 1]>>
    ELSE IntToStr(n \div 10) \o <<Digits[(n % 10) + 1]>>

RECURSIVE Spaces(_)
Spaces(n) == IF n <= 0 THEN <<>> ELSE <<" ">> \o Spaces(n - 1)

\* f"{n:4d}": right-aligned in a field of width 4, never truncated
Format4d(n) == Spaces(4 - Len(IntToStr(n))) \o IntToStr(n)

RECURSIVE StrLess(_, _)
\* a < b for Python str: lexicographic by code point
StrLess(a, b) ==
    IF b = <<>> THEN FALSE
    ELSE IF a = <<>> THEN TRUE
    ELSE IF Ord[Head(a)] # Ord[Head(b)] THEN Ord[Head(a)] < Ord[Head(b)]
    ELSE StrLess(Tail(a), Tail(b))

StartsWith(s, p) == Len(s) >= Len(p) /\ SubSeq(s, 1, Len(p)) = p

EndsWith(s, p) ==
    Len(s) >= Len(p) /\ SubSeq(s, Len(s) - Len(p) + 1, Len(s)) = p

RECURSIVE InsertSorted(_, _)
InsertSorted(x, s) ==
    IF s = <<>> THEN <<x>>
    ELSE IF StrLess(x, Head(s)) THEN <<x>> \o s
    ELSE <<Head(s)>> \o InsertSorted(x, Tail(s))

RECURSIVE sorted(_)
\* sorted(list of str)
sorted(s) == IF s = <<>> THEN <<>> ELSE InsertSorted(Head(s), sorted(Tail(s)))

RECURSIVE SetToSeq(_)
\* a directory listing: the entries of a set in some order
SetToSeq(S) ==
    IF S = {} THEN <<>>
    ELSE LET x == CHOOSE y \in S : TRUE IN <<x>> \o SetToSeq(S \ {x})

RECURSIVE Join(_, _)
\* sep.join(parts)
Join(parts, sep) ==
    IF parts = <<>> THEN <<>>
    ELSE IF Len(parts) = 1 THEN parts[1]
    ELSE parts[1] \o sep \o Join(Tail(parts), sep)

Range(s) == {s[k] : k \in 1..Len(s)}

IsSortedStrict(s) == \A k \in 1..(Len(s) - 1) : StrLess(s[k], s[k + 1])

-----------------------------------------------------------------------------
(* File names and the file system below base_path *)

BasePath == <<"/", "p">>
Sep == <<"/">>

N_package_json == <<"p", "a", "c", "k", "a", "g", "e", ".", "j", "s", "o", "n">>
N_package_lock_json ==
    <<"p", "a", "c", "k", "a", "g", "e", "-", "l", "o", "c", "k", ".", "j", "s", "o", "n">>
N_main_css == <<"m", "a", "i", "n", ".", "c", "s", "s">>
N_output_css == <<"o", "u", "t", "p", "u", "t", ".", "c", "s", "s">>
N_styles_css == <<"s", "t", "y", "l", "e", "s", ".", "c", "s", "s">>
N_include == <<"i", "n", "c", "l", "u", "d", "e">>
N_src == <<"s", "r", "c">>
N_node_modules == <<"n", "o", "d", "e", "_", "m", "o", "d", "u", "l", "e", "s">>
N_git == <<".", "g", "i", "t">>
N_dist == <<"d", "i", "s", "t">>
N_build == <<"b", "u", "i", "l", "d">>
N_next == <<".", "n", "e", "x", "t">>
N_coverage == <<"c", "o", "v", "e", "r", "a", "g", "e">>
N_vscode == <<".", "v", "s", "c", "o", "d", "e">>
N_idea == <<".", "i", "d", "e", "a">>
N_pycache == <<"_", "_", "p", "y", "c", "a", "c", "h", "e", "_", "_">>
N_lib == <<"l", "i", "b">>
N_a_js == <<"a", ".", "j", "s">>
N_z_md == <<"z", ".", "m", "d">>
N_dot_json == <<".", "j", "s", "o", "n">>
N_a_h == <<"a", ".", "h">>
N_b_h == <<"b", ".", "h">>
N_dot_c_h == <<".", "c", ".", "h">>
N_d_h == <<"d", ".", "h">>
N_x_cpp == <<"x", ".", "c", "p", "p">>
N_y_js == <<"y", ".", "j", "s">>
N_m_js == <<"m", ".", "j", "s">>
N_u_ts == <<"u", ".", "t", "s">>

File(p) == [path |-> p, kind |-> "file"]
Dir(p) == [path |-> p, kind |-> "dir"]

\* the entries a project tree is drawn from
Universe ==
    { File(<<N_package_json>>), File(<<N_package_lock_json>>), File(<<N_a_js>>),
      File(<<N_z_md>>), File(<<N_dot_json>>),
      Dir(<<N_include>>), File(<<N_include, N_a_h>>), File(<<N_include, N_b_h>>),
      File(<<N_include, N_dot_c_h>>), Dir(<<N_include, N_d_h>>),
      Dir(<<N_src>>), File(<<N_src, N_x_cpp>>), File(<<N_src, N_y_js>>),
      Dir(<<N_src, N_node_modules>>), File(<<N_src, N_node_modules, N_m_js>>),
      Dir(<<N_lib>>), File(<<N_lib, N_u_ts>>), File(<<N_lib, N_main_css>>) }

Parent(p) == SubSeq(p, 1, Len(p) - 1)
Last(s) == s[Len(s)]

\* an entry can be added to t when its parent directory is the root or in t
Attachable(t, e) == Len(e.path) = 1 \/ Dir(Parent(e.path)) \in t

\* the entries the trees of a whole run are drawn from
DocUniverse ==
    { File(<<N_package_json>>), File(<<N_a_js>>), File(<<N_z_md>>),
      Dir(<<N_include>>), File(<<N_include, N_a_h>>), Dir(<<N_include, N_d_h>>),
      Dir(<<N_src>>), File(<<N_src, N_x_cpp>>),
      Dir(<<N_lib>>), File(<<N_lib, N_u_ts>>) }

RECURSIVE TreesUpTo(_, _)
\* the trees of at most k entries of U
TreesUpTo(U, k) ==
    IF k = 0 THEN {{}}
    ELSE LET prev == TreesUpTo(U, k - 1)
         IN prev \cup UNION {{t \cup {e} : e \in {u \in U \ t : Attachable(t, u)}} : t \in prev}

Trees == TreesUpTo(Universe, MaxEntries)
DocTrees == TreesUpTo(DocUniverse, MaxDocEntries)

-----------------------------------------------------------------------------
(* os.path *)

\* os.path.join(a, b) for a relative b and an a without trailing separator
join(a, b) == a \o Sep \o b

\* the path string of an entry
PathStr(p) == Join(<<BasePath>> \o p, Sep)

\* os.path.exists(os.path.join(base_path, name))
exists(t, name) == File(<<name>>) \in t \/ Dir(<<name>>) \in t

\* str.rfind(c): the last index of c in s, 0 when absent
rfind(s, c) ==
    LET at == {k \in 1..Len(s) : s[k] = c}
    IN IF at = {} THEN 0 ELSE CHOOSE k \in at : \A j \in at : j <= k

\* os.path.basename
basename(p) == SubSeq(p, rfind(p, "/") + 1, Len(p))

\* os.path.dirname of a relative path
dirname(p) ==
    LET k == rfind(p, "/") IN IF k = 0 THEN <<>> ELSE SubSeq(p, 1, k - 1)

\* os.path.relpath(path, start) for a path below start
relpath(p, start) == SubSeq(p, Len(start) + 2, Len(p))

\* os.path.splitext(p)[1]: the suffix from the last dot, unless that dot
\* belongs to the leading dots of the last component
splitext(p) ==
    LET sepIndex == rfind(p, "/")
        dotIndex == rfind(p, ".")
    IN IF dotIndex > sepIndex
          /\ \E k \in (sepIndex + 1)..(dotIndex - 1) : p[k] # "."
       THEN SubSeq(p, dotIndex, Len(p))
       ELSE <<>>

-----------------------------------------------------------------------------
(* detect_project_type, get_nodejs_files, get_cpp_files, get_code_files *)

\* detect_project_type with the two tests in the opposite order
detect_project_type_DirsFirst(t) ==
    IF exists(t, N_include) \/ exists(t, N_src) THEN "cpp"
    ELSE IF exists(t, N_package_json) THEN "nodejs"
    ELSE "generic"

detect_project_type(t) ==
    IF exists(t, N_package_json) THEN "nodejs"
    ELSE IF exists(t, N_include) \/ exists(t, N_src) THEN "cpp"
    ELSE "generic"

excluded_dirs ==
    {N_node_modules, N_git, N_dist, N_build, N_next, N_coverage, N_vscode,
     N_idea, N_pycache}

excluded_files == {N_package_lock_json, N_main_css, N_output_css, N_styles_css}

file_extensions ==
    { <<".", "j", "s">>, <<".", "e", "j", "s">>, <<".", "j", "s", "o", "n">>,
      <<".", "t", "s">>, <<".", "j", "s", "x">>, <<".", "t", "s", "x">>,
      <<".", "c", "s", "s">>, <<".", "h", "t", "m", "l">>, <<".", "s", "q", "l">> }

\* the entries directly inside directory d
Children(t, d) == {e \in t : Len(e.path) = Len(d) + 1 /\ Parent(e.path) = d}

RECURSIVE Concat(_)
Concat(ss) == IF ss = <<>> THEN <<>> ELSE Head(ss) \o Concat(Tail(ss))

\* the inner loop over sorted(files) of one walked directory
AdmitFiles(root, names) ==
    LET keep(file) == file \notin excluded_files /\ splitext(file) \in file_extensions
        kept == SelectSeq(sorted(names), keep)
    IN [k \in 1..Len(kept) |-> join(root, kept[k])]

RECURSIVE WalkFrom_Unpruned(_, _)
\* WalkFrom without "dirs[:] = [d for d in dirs if d not in excluded_dirs]"
WalkFrom_Unpruned(t, d) ==
    LET root == PathStr(d)
        names == SetToSeq({Last(e.path) : e \in {c \in Children(t, d) : c.kind = "file"}})
        dirs == SetToSeq({Last(e.path) : e \in {c \in Children(t, d) : c.kind = "dir"}})
    IN AdmitFiles(root, names)
         \o Concat([k \in 1..Len(dirs) |-> WalkFrom_Unpruned(t, d \o <<dirs[k]>>)])

RECURSIVE WalkFrom(_, _)
\* the body of "for root, dirs, files in os.walk(...)" for directory d and,
\* top-down, for the sub-directories left in dirs after pruning
WalkFrom(t, d) ==
    LET root == PathStr(d)
        names == SetToSeq({Last(e.path) : e \in {c \in Children(t, d) : c.kind = "file"}})
        dirs == SetToSeq({Last(e.path) : e \in {c \in Children(t, d) : c.kind = "dir"}})
        pruned == SelectSeq(dirs, LAMBDA x : x \notin excluded_dirs)
    IN AdmitFiles(root, names)
         \o Concat([k \in 1..Len(pruned) |-> WalkFrom(t, d \o <<pruned[k]>>)])

get_nodejs_files(t) == sorted(WalkFrom(t, <<>>))

\* fnmatch of "*" \o suffix against a name, as glob applies it: a name that
\* begins with a dot is never matched by a pattern that does not
GlobMatch(name, suffix) == Head(name) # "." /\ EndsWith(name, suffix)

\* glob.glob(os.path.join(dir, "*" \o suffix)): every entry of the directory,
\* file or directory, whose name matches
glob(t, d, suffix) ==
    LET hits == {Last(e.path) : e \in {c \in Children(t, d) : GlobMatch(Last(c.path), suffix)}}
        names == SetToSeq(hits)
    IN [k \in 1..Len(names) |-> join(PathStr(d), names[k])]

get_cpp_files(t) ==
    LET cpp_files == IF exists(t, N_src)
                     THEN sorted(glob(t, <<N_src>>, <<".", "c", "p", "p">>))
                     ELSE <<>>
        h_files == IF exists(t, N_include)
                   THEN sorted(glob(t, <<N_include>>, <<".", "h">>))
                   ELSE <<>>
    IN h_files \o cpp_files

\* project_type "None" stands for the omitted argument
get_code_files(t, ptype) ==
    LET resolved == IF ptype = "None" THEN detect_project_type(t) ELSE ptype
    IN IF resolved = "nodejs" THEN get_nodejs_files(t)
       ELSE IF resolved = "cpp" THEN get_cpp_files(t)
       ELSE get_nodejs_files(t)

-----------------------------------------------------------------------------
(* get_lexer_for_file and the tokenizer *)

lexer_map ==
    << <<<<".", "j", "s">>, "javascript">>,
       <<<<".", "j", "s", "x">>, "jsx">>,
       <<<<".", "t", "s">>, "typescript">>,
       <<<<".", "t", "s", "x">>, "tsx">>,
       <<<<".", "e", "j", "s">>, "html+javascript">>,
       <<<<".", "j", "s", "o", "n">>, "json">>,
       <<<<".", "h", "t", "m", "l">>, "html">>,
       <<<<".", "c", "s", "s">>, "css">>,
       <<<<".", "c", "p", "p">>, "cpp">>,
       <<<<".", "h">>, "cpp">>,
       <<<<".", "p", "y">>, "python">>,
       <<<<".", "s", "q", "l">>, "sql">> >>

\* str.lower() on the characters that occur in the model's file names
lower(s) ==
    [k \in 1..Len(s) |->
        IF Ord[s[k]] >= 65 /\ Ord[s[k]] <= 90 THEN AsciiTable[Ord[s[k]] + 1] ELSE s[k]]

\* resolves: whether get_lexer_by_name knows the mapped name; the bare
\* except falls back to the plain-text lexer
get_lexer_for_file(file_path, resolves) ==
    LET ext == lower(splitext(file_path))
        hits == {k \in 1..Len(lexer_map) : lexer_map[k][1] = ext}
        lexer_name == IF hits = {} THEN "text" ELSE lexer_map[CHOOSE k \in hits : TRUE][2]
    IN IF resolves THEN lexer_name ELSE "text"

BOM == "U+FEFF"

\* str.strip("\n")
RECURSIVE StripNL(_)
StripNL(s) ==
    IF s = <<>> THEN s
    ELSE IF Head(s) = NL THEN StripNL(Tail(s))
    ELSE IF Last(s) = NL THEN StripNL(SubSeq(s, 1, Len(s) - 1))
    ELSE s

\* what Lexer.get_tokens does to its input under the default options of
\* get_lexer_by_name(name): drop a leading byte-order mark, strip newlines
\* from both ends (stripnl) and make the text end with one newline (ensurenl)
Preprocess(text) ==
    LET nobom == IF text # <<>> /\ Head(text) = BOM THEN Tail(text) ELSE text
        stripped == StripNL(nobom)
    IN IF stripped # <<>> /\ Last(stripped) = NL THEN stripped ELSE stripped \o <<NL>>

\* the categories the modelled grammars hand out
LexTypes == {<<"Text">>, <<"Keyword">>}

RECURSIVE Splits(_, _)
\* the ways to cut s into at most n non-empty consecutive fragments
Splits(s, n) ==
    IF s = <<>> THEN {<<>>}
    ELSE IF n = 0 THEN {}
    ELSE UNION {{<<SubSeq(s, 1, k)>> \o rest : rest \in Splits(SubSeq(s, k + 1, Len(s)), n - 1)}
                  : k \in 1..Len(s)}

\* list(lex(text, lexer)): (token_type, token_value) pairs whose values
\* concatenate to the preprocessed text; the plain-text grammar emits the
\* whole text as one Token.Text fragment, the others are grammar-defined
lex(text, lexer) ==
    LET pre == Preprocess(text)
    IN IF lexer = "text" THEN {<< <<<<"Text">>, pre>> >>}
       ELSE UNION {{[k \in 1..Len(sp) |-> <<ty[k], sp[k]>>] : ty \in [1..Len(sp) -> LexTypes]}
                     : sp \in Splits(pre, MaxTokens)}

-----------------------------------------------------------------------------
(* syntax_highlight_line *)

Hex(s) == <<"#">> \o s
C_Blue == Hex(<<"0", "0", "0", "0", "F", "F">>)
C_Green == Hex(<<"0", "0", "8", "0", "0", "0">>)
C_Red == Hex(<<"A", "3", "1", "5", "1", "5">>)
C_Teal == Hex(<<"0", "9", "8", "6", "5", "8">>)
C_Class == Hex(<<"2", "6", "7", "F", "9", "9">>)
C_Brown == Hex(<<"7", "9", "5", "E", "2", "6">>)
C_Black == Hex(<<"0", "0", "0", "0", "0", "0">>)
C_Gray == Hex(<<"8", "0", "8", "0", "8", "0">>)

\* the dict literal, in insertion order; Token.String and Token.Number are
\* pygments' aliases of Token.Literal.String and Token.Literal.Number
token_colors ==
    << [type |-> <<"Keyword">>, color |-> C_Blue],
       [type |-> <<"Keyword", "Type">>, color |-> C_Blue],
       [type |-> <<"Keyword", "Constant">>, color |-> C_Blue],
       [type |-> <<"Comment">>, color |-> C_Green],
       [type |-> <<"Comment", "Single">>, color |-> C_Green],
       [type |-> <<"Comment", "Multiline">>, color |-> C_Green],
       [type |-> <<"Comment", "Preproc">>, color |-> C_Blue],
       [type |-> <<"Literal", "String">>, color |-> C_Red],
       [type |-> <<"Literal", "String", "Char">>, color |-> C_Red],
       [type |-> <<"Literal", "Number">>, color |-> C_Teal],
       [type |-> <<"Name", "Class">>, color |-> C_Class],
       [type |-> <<"Name", "Function">>, color |-> C_Brown],
       [type |-> <<"Name", "Builtin">>, color |-> C_Blue],
       [type |-> <<"Operator">>, color |-> C_Black],
       [type |-> <<"Punctuation">>, color |-> C_Black] >>

\* "val in self" for pygments token types: val is self or a descendant of it
TokenIn(val, self) == Len(val) >= Len(self) /\ SubSeq(val, 1, Len(self)) = self

\* token_colors.get(token_type, default)
TableGet(ty, default) ==
    LET hits == {k \in 1..Len(token_colors) : token_colors[k].type = ty}
    IN IF hits = {} THEN default ELSE token_colors[CHOOSE k \in hits : TRUE].color

get_color(ty) ==
    LET c == TableGet(ty, C_Black)
        hits == {k \in 1..Len(token_colors) : TokenIn(ty, token_colors[k].type)}
    IN IF c = C_Black /\ hits # {}
       THEN token_colors[CHOOSE k \in hits : \A j \in hits : k <= j].color
       ELSE c

RECURSIVE replace(_, _, _)
\* str.replace(old, new) for a one-character old
replace(s, old, new) ==
    IF s = <<>> THEN <<>>
    ELSE (IF Head(s) = old THEN new ELSE <<Head(s)>>) \o replace(Tail(s), old, new)

E_amp == <<"&", "a", "m", "p", ";">>
E_lt == <<"&", "l", "t", ";">>
E_gt == <<"&", "g", "t", ";">>
E_nbsp == <<"&", "n", "b", "s", "p", ";">>

escape(token_value) ==
    replace(replace(replace(replace(token_value, "&", E_amp), "<", E_lt), ">", E_gt),
            " ", E_nbsp)

FontOpen(c) ==
    <<"<", "f", "o", "n", "t", " ", "c", "o", "l", "o", "r", "=", "\"">> \o c \o <<"\"", ">">>
FontClose == <<"<", "/", "f", "o", "n", "t", ">">>
Font(c, body) == FontOpen(c) \o body \o FontClose

\* the function body after "tokens = list(lex(line_content, lexer))"
syntax_highlight_line(toks, num) ==
    LET result_parts == [k \in 1..Len(toks) |-> Font(get_color(toks[k][1]), escape(toks[k][2]))]
        highlighted_code == Concat(result_parts)
    IN Font(C_Gray, Format4d(num)) \o <<" ", " ">> \o highlighted_code

-----------------------------------------------------------------------------
(* create_pdf: the element stream *)

Paragraph(text, style) == [type |-> "Paragraph", text |-> text, style |-> style]
Spacer(height) == [type |-> "Spacer", height |-> height]
PageBreak == [type |-> "PageBreak"]

\* os.path.basename(base_path)
project_name == basename(BasePath)

\* relative_dir of the grouping loop
relative_dir(file_path) ==
    LET d == dirname(relpath(file_path, BasePath)) IN IF d = <<>> THEN <<".">> ELSE d

\* the defaultdict after "for file_path in files": each directory label
\* mapped to its (file_index, filename) pairs in order of insertion
group_files(fs) ==
    [d \in {relative_dir(fs[k]) : k \in 1..Len(fs)} |->
        LET at == SelectSeq([k \in 1..Len(fs) |-> k], LAMBDA k : relative_dir(fs[k]) = d)
        IN [j \in 1..Len(at) |-> <<at[j], basename(fs[at[j]])>>]]

\* toc_group with the closing connector on the first entry of a directory
toc_group_FirstCloses(df, dir_name) ==
    LET files_in_dir == df[dir_name]
        entry(k) ==
            LET prefix == IF k - 1 = 0 THEN <<Backtick, "-", "-">> ELSE <<"|", "-", "-">>
            IN Paragraph(prefix \o <<" ">> \o IntToStr(files_in_dir[k][1]) \o <<".", " ">>
                           \o files_in_dir[k][2], "TOCFile")
    IN <<Paragraph(dir_name \o <<"/">>, "TOCDir")>>
         \o [k \in 1..Len(files_in_dir) |-> entry(k)]
         \o <<Spacer("0.1in")>>

\* the paragraphs of one directory of the table of contents
toc_group(df, dir_name) ==
    LET files_in_dir == df[dir_name]
        entry(k) ==
            LET prefix == IF k - 1 = Len(files_in_dir) - 1 THEN <<Backtick, "-", "-">> ELSE <<"|", "-", "-">>
            IN Paragraph(prefix \o <<" ">> \o IntToStr(files_in_dir[k][1]) \o <<".", " ">>
                           \o files_in_dir[k][2], "TOCFile")
    IN <<Paragraph(dir_name \o <<"/">>, "TOCDir")>>
         \o [k \in 1..Len(files_in_dir) |-> entry(k)]
         \o <<Spacer("0.1in")>>

\* elements after the table of contents has been appended
toc_elements(df) ==
    LET dirs == sorted(SetToSeq(DOMAIN df))
    IN <<Paragraph(<<"T", "a", "b", "l", "e", " ", "o", "f", " ", "C", "o", "n", "t", "e", "n", "t", "s", " ", "-", " ">> \o project_name, "CustomTitle"), Spacer("0.2in")>>
         \o Concat([k \in 1..Len(dirs) |-> toc_group(df, dirs[k])])
         \o <<PageBreak>>

\* file_header numbered as by enumerate(files) without the start value 1
file_header_FromZero(k, file_path) ==
    << Paragraph(IntToStr(k - 1) \o <<".", " ">> \o basename(file_path), "FileHeader"),
       Paragraph(<<"<", "i", ">", "P", "a", "t", "h", ":", " ">>
                   \o relpath(file_path, BasePath) \o <<"<", "/", "i", ">">>, "Italic"),
       Spacer("0.15in") >>

\* the three elements appended before the file is opened
file_header(k, file_path) ==
    << Paragraph(IntToStr(k) \o <<".", " ">> \o basename(file_path), "FileHeader"),
       Paragraph(<<"<", "i", ">", "P", "a", "t", "h", ":", " ">> \o relpath(file_path, BasePath) \o <<"<", "/", "i", ">">>, "Italic"),
       Spacer("0.15in") >>

\* str.rstrip("\n")
RECURSIVE rstrip_nl(_)
rstrip_nl(s) ==
    IF s # <<>> /\ Last(s) = NL THEN rstrip_nl(SubSeq(s, 1, Len(s) - 1)) ELSE s

RECURSIVE RenderFrom(_, _, _)
\* the code paragraphs the loop over enumerate(lines, 1) can append for the
\* lines from number j on: one per line, for each tokenization of the line
RenderFrom(lines, j, lexer) ==
    IF j > Len(lines) THEN {<<>>}
    ELSE {<<Paragraph(syntax_highlight_line(t, j), "CodeStyle")>> \o rest :
            t \in lex(rstrip_nl(lines[j]), lexer), rest \in RenderFrom(lines, j + 1, lexer)}

\* str(e) of the exceptions open() and readlines() raise
EACCES(file_path) == <<"[", "E", "r", "r", "n", "o", " ", "1", "3", "]", " ", "P", "e", "r", "m", "i", "s", "s", "i", "o", "n", " ", "d", "e", "n", "i", "e", "d", ":", " ", "'">> \o file_path \o <<"'">>
EISDIR(file_path) == <<"[", "E", "r", "r", "n", "o", " ", "2", "1", "]", " ", "I", "s", " ", "a", " ", "d", "i", "r", "e", "c", "t", "o", "r", "y", ":", " ", "'">> \o file_path \o <<"'">>
EDECODE == <<"'", "u", "t", "f", "-", "8", "'", " ", "c", "o", "d", "e", "c", " ", "c", "a", "n", "'", "t", " ", "d", "e", "c", "o", "d", "e", " ", "b", "y", "t", "e", " ", "0", "x", "f", "f", " ", "i", "n", " ", "p", "o", "s", "i", "t", "i", "o", "n", " ", "0", ":", " ", "i", "n", "v", "a", "l", "i", "d", " ", "s", "t", "a", "r", "t", " ", "b", "y", "t", "e">>

\* the except branch
error_paragraph(msg) == Paragraph(<<"E", "r", "r", "o", "r", " ", "r", "e", "a", "d", "i", "n", "g", " ", "f", "i", "l", "e", ":", " ">> \o msg, "Normal")

\* page_break_after without the test for the last file
page_break_after_Always(k, fs) == <<PageBreak>>

\* "if i < len(files): elements.append(PageBreak())"
page_break_after(k, fs) == IF k < Len(fs) THEN <<PageBreak>> ELSE <<>>

\* what f.readlines() can return for a regular file of the model
FileContents ==
    { <<>>,
      << <<"<", NL>> >>,
      << <<NL>>, <<NL>> >> }

\* the entry of the tree a collected path names
EntryAt(t, file_path) == CHOOSE e \in t : PathStr(e.path) = file_path

-----------------------------------------------------------------------------
(* Values of the variables a specification does not use *)

IdleCollect == project_type = "None" /\ files = <<>>

IdleDocument ==
    /\ dir_files = <<>> /\ elements = <<>> /\ i = 0 /\ reads = <<>>
    /\ output_written = FALSE /\ status = "running"

IdleHighlight == line_content = <<>> /\ line_num = 0 /\ tokens = <<>> /\ markup = <<>>

IdleColor == token_type = <<>> /\ color = <<>>

docVars == <<dir_files, elements, i, reads, output_written, status>>
highlightVars == <<line_content, line_num, tokens, markup>>
colorVars == <<token_type, color>>

-----------------------------------------------------------------------------
(* SpecCollect: the classifier and the collectors applied to a tree *)

ProjectTypeArgs == {"None", "nodejs", "cpp", "generic"}

InitCollect ==
    /\ root_exists = TRUE
    /\ tree \in Trees
    /\ pc = "input"
    /\ IdleCollect /\ IdleDocument /\ IdleHighlight /\ IdleColor

CallDetect ==
    /\ pc = "input"
    /\ project_type' = detect_project_type(tree)
    /\ pc' = "detect_project_type"
    /\ UNCHANGED <<root_exists, tree, files, docVars, highlightVars, colorVars>>

CallNodejs ==
    /\ pc = "input"
    /\ files' = get_nodejs_files(tree)
    /\ pc' = "get_nodejs_files"
    /\ UNCHANGED <<root_exists, tree, project_type, docVars, highlightVars, colorVars>>

CallCpp ==
    /\ pc = "input"
    /\ files' = get_cpp_files(tree)
    /\ pc' = "get_cpp_files"
    /\ UNCHANGED <<root_exists, tree, project_type, docVars, highlightVars, colorVars>>

CallGetCodeFiles ==
    /\ pc = "input"
    /\ \E arg \in ProjectTypeArgs :
         /\ project_type' = arg
         /\ files' = get_code_files(tree, arg)
    /\ pc' = "get_code_files"
    /\ UNCHANGED <<root_exists, tree, docVars, highlightVars, colorVars>>

NextCollect == CallDetect \/ CallNodejs \/ CallCpp \/ CallGetCodeFiles

SpecCollect == InitCollect /\ [][NextCollect]_vars

\* an entry named name directly below the root
HasEntry(t, name) == \E e \in t : e.path = <<name>>

\* the files of t that the recursive walk is to return
Admitted(t) ==
    {PathStr(e.path) : e \in
        {f \in t : /\ f.kind = "file"
                   /\ splitext(Last(f.path)) \in file_extensions
                   /\ Last(f.path) \notin excluded_files
                   /\ \A k \in 1..(Len(f.path) - 1) : f.path[k] \notin excluded_dirs}}

\* C4: get_nodejs_files returns exactly the files with an allow-listed
\* extension, a name outside the file deny-list and no denylisted directory
\* on their path, sorted by full path and without duplicates
C4_RecursiveWalk ==
    pc = "get_nodejs_files" =>
        /\ Range(files) = Admitted(tree)
        /\ IsSortedStrict(files)
        /\ Len(files) = Cardinality(Admitted(tree))

\* a denylisted directory two levels down holds an allow-listed file and
\* contributes nothing, while other files are collected
C4_Witness ==
    /\ pc = "get_nodejs_files"
    /\ File(<<N_src, N_node_modules, N_m_js>>) \in tree
    /\ Len(files) >= 2
    /\ PathStr(<<N_src, N_node_modules, N_m_js>>) \notin Range(files)

\* the regular files directly in directory d whose extension is ext
FilesWithExt(t, d, ext) ==
    {PathStr(e.path) : e \in {c \in Children(t, <<d>>) : c.kind = "file" /\ splitext(Last(c.path)) = ext}}

\* C5: get_cpp_files returns the .h files directly in include/, sorted,
\* followed by the .cpp files directly in src/, sorted, and nothing else
C5_FixedLayout ==
    pc = "get_cpp_files" =>
        files = sorted(SetToSeq(FilesWithExt(tree, N_include, <<".", "h">>)))
                  \o sorted(SetToSeq(FilesWithExt(tree, N_src, <<".", "c", "p", "p">>)))

\* the order of the fixed layout: what is returned is sorted inside include/
\* and inside src/, and everything from include/ precedes everything from src/
HeadersBeforeSources ==
    pc = "get_cpp_files" =>
        \A x, y \in 1..Len(files) :
            x < y =>
                \/ /\ StartsWith(files[x], PathStr(<<N_include>>) \o Sep)
                   /\ StartsWith(files[y], PathStr(<<N_src>>) \o Sep)
                \/ /\ dirname(files[x]) = dirname(files[y])
                   /\ StrLess(files[x], files[y])

\* C7: detect_project_type is total and first-match-wins, and get_code_files
\* uses get_cpp_files for "cpp" only and get_nodejs_files otherwise
C7_Classifier ==
    LET expected == IF HasEntry(tree, N_package_json) THEN "nodejs"
                    ELSE IF HasEntry(tree, N_include) \/ HasEntry(tree, N_src) THEN "cpp"
                    ELSE "generic"
    IN /\ pc = "detect_project_type" => project_type = expected
       /\ pc = "get_code_files" =>
            LET resolved == IF project_type = "None" THEN expected ELSE project_type
            IN files = IF resolved = "cpp" THEN get_cpp_files(tree) ELSE get_nodejs_files(tree)

\* a root with package.json and src/ is classified "nodejs"
C7_Witness ==
    /\ pc = "detect_project_type"
    /\ HasEntry(tree, N_package_json)
    /\ HasEntry(tree, N_src)
    /\ project_type = "nodejs"

-----------------------------------------------------------------------------
(* Spec: one run of create_pdf *)

Init ==
    /\ root_exists \in BOOLEAN
    /\ tree \in (IF root_exists THEN DocTrees ELSE {{}})
    /\ pc = "start"
    /\ IdleCollect /\ IdleDocument /\ IdleHighlight /\ IdleColor

\* "if not os.path.exists(base_path): print(...); return"
NoSuchPath ==
    /\ pc = "start"
    /\ ~root_exists
    /\ pc' = "done"
    /\ status' = "returned"
    /\ UNCHANGED <<root_exists, tree, project_type, files, dir_files, elements, i,
                   reads, output_written, highlightVars, colorVars>>

\* detect_project_type and get_code_files
Collect ==
    /\ pc = "start"
    /\ root_exists
    /\ project_type' = detect_project_type(tree)
    /\ files' = get_code_files(tree, project_type')
    /\ pc' = "collected"
    /\ UNCHANGED <<root_exists, tree, docVars, highlightVars, colorVars>>

\* NoFiles without the return: the run goes on to doc.build
NoFiles_NoReturn ==
    /\ pc = "collected"
    /\ files = <<>>
    /\ pc' = "build"
    /\ UNCHANGED <<root_exists, tree, project_type, files, dir_files, elements, i,
                   reads, output_written, status, highlightVars, colorVars>>

\* "if not files: print(...); return"
NoFiles ==
    /\ pc = "collected"
    /\ files = <<>>
    /\ pc' = "done"
    /\ status' = "returned"
    /\ UNCHANGED <<root_exists, tree, project_type, files, dir_files, elements, i,
                   reads, output_written, highlightVars, colorVars>>

\* the table of contents, up to the page break that closes it
BuildToc ==
    /\ pc = "collected"
    /\ files # <<>>
    /\ dir_files' = group_files(files)
    /\ elements' = toc_elements(dir_files')
    /\ i' = 1
    /\ pc' = "files"
    /\ UNCHANGED <<root_exists, tree, project_type, files, reads, output_written,
                   status, highlightVars, colorVars>>

\* an except branch that appends nothing
read_failure_elements_Silent(msg) == <<>>

\* what the except branch leaves in elements for a failed read
read_failure_elements(msg) == <<error_paragraph(msg)>>

\* the exceptions open()/readlines() can raise for an entry
ReadErrors(e, file_path) ==
    IF e.kind = "dir" THEN {EISDIR(file_path)} ELSE {EACCES(file_path), EDECODE}

\* one iteration of the file loop in which the file is read
ProcessFileOk ==
    /\ pc = "files"
    /\ i <= Len(files)
    /\ EntryAt(tree, files[i]).kind = "file"
    /\ \E lines \in FileContents, resolves \in BOOLEAN :
         \E rendered \in RenderFrom(lines, 1, get_lexer_for_file(files[i], resolves)) :
            /\ elements' = elements \o file_header(i, files[i]) \o rendered
                             \o page_break_after(i, files)
            /\ reads' = Append(reads, [ok |-> TRUE, lines |-> lines])
    /\ i' = i + 1
    /\ pc' = IF i = Len(files) THEN "build" ELSE "files"
    /\ UNCHANGED <<root_exists, tree, project_type, files, dir_files, output_written,
                   status, highlightVars, colorVars>>

\* one iteration of the file loop in which open() or readlines() raises
ProcessFileError ==
    /\ pc = "files"
    /\ i <= Len(files)
    /\ \E msg \in ReadErrors(EntryAt(tree, files[i]), files[i]) :
         /\ elements' = elements \o file_header(i, files[i]) \o read_failure_elements(msg)
                          \o page_break_after(i, files)
         /\ reads' = Append(reads, [ok |-> FALSE, lines |-> <<>>])
    /\ i' = i + 1
    /\ pc' = IF i = Len(files) THEN "build" ELSE "files"
    /\ UNCHANGED <<root_exists, tree, project_type, files, dir_files, output_written,
                   status, highlightVars, colorVars>>

\* doc.build(elements)
Build ==
    /\ pc = "build"
    /\ output_written' = TRUE
    /\ status' = "returned"
    /\ pc' = "done"
    /\ UNCHANGED <<root_exists, tree, project_type, files, dir_files, elements, i,
                   reads, highlightVars, colorVars>>

Next ==
    \/ NoSuchPath
    \/ Collect
    \/ NoFiles
    \/ BuildToc
    \/ ProcessFileOk
    \/ ProcessFileError
    \/ Build

Spec == Init /\ [][Next]_vars

-----------------------------------------------------------------------------
(* Reading a document back *)

IsParagraph(e, style) == e.type = "Paragraph" /\ e.style = style

\* the positions of the section headings in an element stream
HeaderPositions(els) ==
    SelectSeq([k \in 1..Len(els) |-> k], LAMBDA k : IsParagraph(els[k], "FileHeader"))

\* the k-th section: from its heading up to the next heading or the end
SectionOf(els, k) ==
    LET hp == HeaderPositions(els)
    IN SubSeq(els, hp[k], IF k < Len(hp) THEN hp[k + 1] - 1 ELSE Len(els))

HeadingText(k) == IntToStr(k) \o <<".", " ">> \o basename(files[k])
PathText(k) == <<"<", "i", ">", "P", "a", "t", "h", ":", " ">> \o relpath(files[k], BasePath) \o <<"<", "/", "i", ">">>

\* the line-number prefix of a rendered line
LinePrefix(n) == Font(C_Gray, Format4d(n)) \o <<" ", " ">>

RECURSIVE DropTag(_)
\* the rest of s after the end of the tag that s is inside of
DropTag(s) == IF s = <<>> THEN <<>> ELSE IF Head(s) = ">" THEN Tail(s) ELSE DropTag(Tail(s))

RECURSIVE StripTags(_)
\* s without its <...> tags
StripTags(s) ==
    IF s = <<>> THEN <<>>
    ELSE IF Head(s) = "<" THEN StripTags(DropTag(Tail(s)))
    ELSE <<Head(s)>> \o StripTags(Tail(s))

RECURSIVE Unescape(_)
\* s with every escape sequence turned back into its character
Unescape(s) ==
    IF s = <<>> THEN <<>>
    ELSE IF StartsWith(s, E_amp) THEN <<"&">> \o Unescape(SubSeq(s, Len(E_amp) + 1, Len(s)))
    ELSE IF StartsWith(s, E_lt) THEN <<"<">> \o Unescape(SubSeq(s, Len(E_lt) + 1, Len(s)))
    ELSE IF StartsWith(s, E_gt) THEN <<">">> \o Unescape(SubSeq(s, Len(E_gt) + 1, Len(s)))
    ELSE IF StartsWith(s, E_nbsp) THEN <<" ">> \o Unescape(SubSeq(s, Len(E_nbsp) + 1, Len(s)))
    ELSE <<Head(s)>> \o Unescape(Tail(s))

\* the text a rendered line of number n shows
Decode(m, n) == Unescape(StripTags(SubSeq(m, Len(LinePrefix(n)) + 1, Len(m))))

Started == pc \in {"files", "build", "done"} /\ files # <<>>

-----------------------------------------------------------------------------
(* Properties of a run of create_pdf *)

\* C1: a run over n >= 1 collected files emits exactly n section headings,
\* numbered 1..n, the k-th being the heading of the k-th collected file and
\* followed by that file's path, whichever files fail to be read
C1_SectionPerFile ==
    Started =>
        LET hp == HeaderPositions(elements)
        IN /\ Len(hp) = (IF pc = "files" THEN i - 1 ELSE Len(files))
           /\ \A k \in 1..Len(hp) :
                /\ elements[hp[k]].text = HeadingText(k)
                /\ elements[hp[k] + 1] = Paragraph(PathText(k), "Italic")

\* a finished run over several files of which some were read and some not
C1_Witness ==
    /\ pc = "done"
    /\ output_written
    /\ Len(files) >= 2
    /\ \E k \in 1..Len(reads) : reads[k].ok
    /\ \E k \in 1..Len(reads) : ~reads[k].ok

ErrorPrefix == <<"E", "r", "r", "o", "r", " ", "r", "e", "a", "d", "i", "n", "g", " ", "f", "i", "l", "e", ":", " ">>

\* C2: a file whose read raises still has its section, made of the heading,
\* the path and exactly one error line and no code line; the loop goes on
\* with the next file and the document is built
C2_ReadFailureIsLocal ==
    /\ status # "raised"
    /\ pc = "files" => i = Len(reads) + 1 /\ i <= Len(files)
    /\ pc = "done" /\ files # <<>> => Len(reads) = Len(files) /\ output_written
    /\ \A k \in 1..Len(reads) :
         ~reads[k].ok =>
            LET sec == SectionOf(elements, k)
                paras == SelectSeq(sec, LAMBDA e : e.type = "Paragraph")
            IN /\ Len(paras) = 3
               /\ paras[1] = Paragraph(HeadingText(k), "FileHeader")
               /\ paras[2] = Paragraph(PathText(k), "Italic")
               /\ paras[3].style = "Normal"
               /\ StartsWith(paras[3].text, ErrorPrefix)

\* the first file failed, the second was read and rendered, the document built
C2_Witness ==
    /\ pc = "done"
    /\ output_written
    /\ Len(reads) >= 2
    /\ ~reads[1].ok
    /\ reads[2].ok
    /\ Len(reads[2].lines) >= 1

\* C3: no output file is written, and the run returns, when the root does
\* not exist and when no file is collected; the output file is written only
\* when the root exists and at least one file was collected
C3_AbortWritesNothing ==
    /\ status # "raised"
    /\ pc = "done" => status = "returned"
    /\ pc = "done" /\ (~root_exists \/ files = <<>>) => ~output_written
    /\ output_written => root_exists /\ Len(files) >= 1

\* the root exists and holds entries, none is collected, the run is over
C3_Witness ==
    /\ pc = "done"
    /\ root_exists
    /\ tree # {}
    /\ files = <<>>
    /\ status = "returned"

\* C9: the section of a file read with m lines is the heading, the path,
\* m code lines of which the j-th carries number j and shows line j, and a
\* page break exactly when the file is not the last one
C9_SectionStream ==
    \A k \in 1..Len(reads) :
        reads[k].ok =>
            LET lines == reads[k].lines
                m == Len(lines)
                body == SelectSeq(SectionOf(elements, k), LAMBDA e : e.type # "Spacer")
            IN /\ Len(body) = 2 + m + (IF k < Len(files) THEN 1 ELSE 0)
               /\ body[1] = Paragraph(HeadingText(k), "FileHeader")
               /\ body[2] = Paragraph(PathText(k), "Italic")
               /\ \A j \in 1..m :
                    /\ IsParagraph(body[2 + j], "CodeStyle")
                    /\ StartsWith(body[2 + j].text, LinePrefix(j))
                    /\ rstrip_nl(Decode(body[2 + j].text, j)) = rstrip_nl(lines[j])
               /\ \A x \in 1..Len(body) :
                    body[x].type = "PageBreak" <=> (x = Len(body) /\ k < Len(files))

\* a two-line file that is not the last one and a last file with a line
C9_Witness ==
    /\ pc = "done"
    /\ \E k \in 1..Len(reads) : k < Len(files) /\ reads[k].ok /\ Len(reads[k].lines) = 2
    /\ reads[Len(files)].ok
    /\ Len(reads[Len(files)].lines) = 1

\* the table of contents: the elements before the first page break
TocPart ==
    LET brk == CHOOSE x \in 1..Len(elements) :
                  /\ elements[x].type = "PageBreak"
                  /\ \A y \in 1..(x - 1) : elements[y].type # "PageBreak"
    IN SubSeq(elements, 1, brk - 1)

TocFileText(closing, k) ==
    (IF closing THEN <<Backtick, "-", "-">> ELSE <<"|", "-", "-">>) \o <<" ">> \o IntToStr(k) \o <<".", " ">>
        \o basename(files[k])

IsEntryFor(e, k) ==
    IsParagraph(e, "TOCFile") /\ e.text \in {TocFileText(TRUE, k), TocFileText(FALSE, k)}

\* the position of the directory paragraph an entry at position x stands under
GroupPos(toc, x) ==
    CHOOSE g \in 1..x :
        /\ IsParagraph(toc[g], "TOCDir")
        /\ \A y \in (g + 1)..x : ~IsParagraph(toc[y], "TOCDir")

\* C10: every collected file is listed exactly once in the table of
\* contents, under its own directory, with the number of its section; the
\* directories are in sorted order, the numbers inside a directory increase,
\* and exactly the last entry of a directory has the closing connector
C10_TableOfContents ==
    Started =>
        LET toc == TocPart
            n == Len(files)
            entries == {x \in 1..Len(toc) : IsParagraph(toc[x], "TOCFile")}
            dirs == SelectSeq(toc, LAMBDA e : IsParagraph(e, "TOCDir"))
            idx(x) == CHOOSE k \in 1..n : IsEntryFor(toc[x], k)
        IN /\ Cardinality(entries) = n
           /\ \A k \in 1..n : Cardinality({x \in entries : IsEntryFor(toc[x], k)}) = 1
           /\ \A x \in entries : \E k \in 1..n : IsEntryFor(toc[x], k)
           /\ \A x \in entries :
                toc[GroupPos(toc, x)].text = relative_dir(files[idx(x)]) \o <<"/">>
           /\ \A g \in 1..(Len(dirs) - 1) :
                StrLess(SubSeq(dirs[g].text, 1, Len(dirs[g].text) - 1),
                        SubSeq(dirs[g + 1].text, 1, Len(dirs[g + 1].text) - 1))
           /\ \A x, y \in entries :
                x < y /\ GroupPos(toc, x) = GroupPos(toc, y) => idx(x) < idx(y)
           /\ \A x \in entries :
                toc[x].text = TocFileText(TRUE, idx(x))
                    <=> (x = Len(toc) \/ ~IsParagraph(toc[x + 1], "TOCFile"))

\* two directories, one of them with two files whose numbers are not adjacent
C10_Witness ==
    /\ pc = "done"
    /\ Cardinality(DOMAIN dir_files) >= 2
    /\ \E d \in DOMAIN dir_files :
         /\ Len(dir_files[d]) = 2
         /\ dir_files[d][2][1] > dir_files[d][1][1] + 1

-----------------------------------------------------------------------------
(* SpecHighlight: syntax_highlight_line applied to a line *)

LineAlphabet == {"&", "<", ">", " ", "l", "t", ";"}

RECURSIVE StringsUpTo(_, _)
\* the strings over alphabet A of length at most n
StringsUpTo(A, n) ==
    IF n = 0 THEN {<<>>}
    ELSE LET prev == StringsUpTo(A, n - 1)
         IN prev \cup {Append(s, c) : s \in {p \in prev : Len(p) = n - 1}, c \in A}

LineNums == {1, 10000}

InitHighlight ==
    /\ root_exists = TRUE
    /\ tree = {}
    /\ pc = "input"
    /\ line_content \in StringsUpTo(LineAlphabet, MaxLen)
    /\ line_num \in LineNums
    /\ tokens = <<>>
    /\ markup = <<>>
    /\ IdleCollect /\ IdleDocument /\ IdleColor

CallHighlight ==
    /\ pc = "input"
    /\ \E lexer \in {"text", "javascript"} :
         \E toks \in lex(line_content, lexer) :
            /\ tokens' = toks
            /\ markup' = syntax_highlight_line(toks, line_num)
    /\ pc' = "highlighted"
    /\ UNCHANGED <<root_exists, tree, project_type, files, docVars, line_content,
                   line_num, colorVars>>

NextHighlight == CallHighlight

SpecHighlight == InitHighlight /\ [][NextHighlight]_vars

\* C6: the markup of a line, with the line-number prefix and the colour tags
\* removed and the escape sequences reversed, is the line itself
C6_RoundTrip ==
    pc = "highlighted" => Decode(markup, line_num) = line_content

\* the escape chain itself loses nothing: the decoded markup is the text the
\* fragments cover, which is the line followed by the tokenizer's newline
RoundTripOfLexedText ==
    pc = "highlighted" =>
        /\ Concat([k \in 1..Len(tokens) |-> tokens[k][2]]) = line_content \o <<NL>>
        /\ Decode(markup, line_num) = line_content \o <<NL>>

-----------------------------------------------------------------------------
(* SpecColor: get_color applied to a token category *)

TokenNames ==
    {"Keyword", "Type", "Constant", "Comment", "Single", "Multiline", "Preproc",
     "Literal", "String", "Char", "Number", "Name", "Class", "Function",
     "Builtin", "Operator", "Punctuation", "Text"}

InitColor ==
    /\ root_exists = TRUE
    /\ tree = {}
    /\ pc = "input"
    /\ token_type \in StringsUpTo(TokenNames, MaxDepth)
    /\ color = <<>>
    /\ IdleCollect /\ IdleDocument /\ IdleHighlight

CallGetColor ==
    /\ pc = "input"
    /\ color' = get_color(token_type)
    /\ pc' = "get_color"
    /\ UNCHANGED <<root_exists, tree, project_type, files, docVars, highlightVars,
                   token_type>>

NextColor == CallGetColor

SpecColor == InitColor /\ [][NextColor]_vars

\* the table entries whose category is a proper ancestor of ty
AncestorEntries(ty) ==
    {k \in 1..Len(token_colors) :
        Len(token_colors[k].type) < Len(ty) /\ TokenIn(ty, token_colors[k].type)}

\* C8: get_color returns the table's colour of a category that has an entry,
\* else the colour of the nearest ancestor that has an entry, else black
C8_NearestAncestor ==
    pc = "get_color" =>
        LET direct == {k \in 1..Len(token_colors) : token_colors[k].type = token_type}
            anc == AncestorEntries(token_type)
            nearest == CHOOSE k \in anc :
                          \A j \in anc : Len(token_colors[j].type) <= Len(token_colors[k].type)
        IN color = IF direct # {} THEN token_colors[CHOOSE k \in direct : TRUE].color
                   ELSE IF anc # {} THEN token_colors[nearest].color
                   ELSE C_Black

====
